---- MODULE Spec2Model ----
(***************************************************************************)
(* A model of the local staging and push subsystem of tools/xpload.py:     *)
(* add_tag, add_pil, payload_copy, push_tags, push_pils and push.          *)
(*                                                                         *)
(* The two stage files (.xpload/tags.json and .xpload/pils.json), the      *)
(* payload source files, the candidate prefixes and the prefix tree are    *)
(* the state.  The remote calls create_and_link_tag / create_and_link_pil  *)
(* are not part of tools/xpload.py; they are modelled as calls that either *)
(* return or raise, and every call is recorded.                            *)
(***************************************************************************)
EXTENDS Integers, Sequences, FiniteSets, TLC

VARIABLES
    tagsFile,   \* .xpload/tags.json
    pilsFile,   \* .xpload/pils.json
    files,      \* payload source files: path -> content, or NoFile
    prefixes,   \* db.path: the ordered candidate prefixes, each with its st_mode
    tree,       \* files written below the prefixes: set of [dest, content]
    pc,         \* position of the running push(): idle, push_tags, dry, real
    ptags,      \* push_tags: the tags loaded from tags.json
    ppils,      \* push_pils: the (flattened) payload items loaded from pils.json
    pos,        \* index of the next tag / payload item to submit
    calls,      \* payload_copy and remote calls made by the push that runs or ran last
    writes,     \* files written below the prefixes by the push that runs or ran last
    start,      \* the stage files as they were when that push began, and the staged
                \* payload paths that were missing then
    last,       \* the last operation that ran, its arguments and how it ended
    lastTag,    \* for each tag name added since tags.json was absent: the fields of
                \* its latest add_tag
    lastPil,    \* for each (tag, domain, start, end) added since pils.json was absent:
                \* the path of its latest add_pil
    procs       \* add_tag / add_pil invocations that run side by side: where each
                \* is, its arguments and the list it loaded

vars == <<tagsFile, pilsFile, files, prefixes, tree, pc, ptags, ppils, pos,
          calls, writes, start, last, lastTag, lastPil, procs>>

stageVars == <<tagsFile, pilsFile, lastTag, lastPil>>
envVars   == <<files, prefixes, tree>>
pushVars  == <<pc, ptags, ppils, pos, calls, writes, start>>

----------------------------------------------------------------------------
(* Bounds and value sets *)

MaxDomains == 2     \* longest --domains list given to add_tag
MaxPrefixes == 2    \* longest list of candidate prefixes (db.path)
MaxTags == 2        \* number of tags staged for a push
MaxCopies == 2      \* records with one key that an edit leaves in a stage file

TagNames   == {"T1", "T2"}
TagTypes   == {"online", "offline"}
TagStatus  == {"unlocked", "locked"}
Domains    == {"D1", "D2"}

\* a payload path: its directory and its basename
Paths == {[dir |-> "a", base |-> "f"], [dir |-> "b", base |-> "f"], [dir |-> "a", base |-> "g"]}
NoFile == "nofile"

\* Python None / JSON null for the optional end of an interval
None == <<>>
Some(v) == <<v>>
Times == {0, 10, 20}
Ends == {None} \cup {Some(t) : t \in Times}

----------------------------------------------------------------------------
(* Generic helpers *)

Range(s) == {s[i] : i \in 1..Len(s)}

\* every ordering of the elements of a finite set
Perms(S) == {p \in [1..Cardinality(S) -> S] : Range(p) = S}

SeqsUpTo(S, n) == UNION {[1..k -> S] : k \in 0..n}

----------------------------------------------------------------------------
(* Stage files *)

\* a stage file: whether it exists, whether it parses as JSON, and the records
\* it holds
Absent == [exists |-> FALSE, valid |-> TRUE, data |-> <<>>]
StageOf(recs) == [exists |-> TRUE, valid |-> TRUE, data |-> recs]

\* the text of a stage file that an edit left unparsable: the file exists, and
\* `data` stands for what is still written in it
Broken(file) == [exists |-> TRUE, valid |-> FALSE, data |-> file.data]

\* (mutant) json.load takes any text
ParsesAnything(file) == TRUE

\* json.load(file.open()) raises no json.JSONDecodeError
Parses(file) == file.exists => file.valid

\* json.load(file.open()) with "except OSError": a missing file gives []
Load(file) == IF file.exists THEN file.data ELSE <<>>

----------------------------------------------------------------------------
(* Command line argument types *)

\* NonNegativeInt: int(value), rejected when negative
NonNegativeInt(v) == v >= 0

\* FilePathType: the payload file must exist when the command is parsed
FilePathType(p) == files[p] # NoFile

\* what every operation records about itself
Ran(op, args, res) == [op |-> op, args |-> args, res |-> res, note |-> ""]

\* an accepted add: whether its key was new to the stage, replaced an entry
\* with other fields, or was staged with the same fields already
Did(op, args, note) == [op |-> op, args |-> args, res |-> "ok", note |-> note]

NotStarted == [tags |-> Absent, pils |-> Absent, missing |-> {}]

\* the add invocations that may run side by side, and one that has not begun
Invocations == {"i1", "i2", "i3"}
NotInvoked == [at |-> "idle", op |-> "none", args |-> <<>>, loaded |-> <<>>, missed |-> {}]

\* a command other than push: no push is running, and the records of the last
\* push are dropped
NoPush ==
    /\ UNCHANGED <<pc, ptags, ppils, pos>>
    /\ calls' = <<>>
    /\ writes' = {}
    /\ start' = NotStarted

----------------------------------------------------------------------------
(* add_tag *)

TagEntry(name, type, status, domains) ==
    [name |-> name, type |-> type, status |-> status, domains |-> domains]

\* (mutant) any number of entries with the key is taken
TooManyNever(existing) == FALSE

\* if len(existing_tags) >= 2 (len(existing_pils) >= 2): raise RuntimeError
TooMany(existing) == Cardinality(existing) >= 2

\* [indx for indx, tag in enumerate(tags) if tag['name'] == tag_name]
TagIndices(tags, name) == {i \in 1..Len(tags) : tags[i].name = name}

\* (mutant) the entry is appended and the old entry of the name is kept
UpsertTagKeepingOld(tags, entry) == Append(tags, entry)

\* (mutant) the entry is put in front
UpsertTagFirst(tags, entry) ==
    <<entry>> \o SelectSeq(tags, LAMBDA t : t.name # entry.name)

\* tags = [tag for tag in tags if tag['name'] != tag_name]; tags.append(tag_entry)
UpsertTag(tags, entry) ==
    Append(SelectSeq(tags, LAMBDA t : t.name # entry.name), entry)

\* add_tag once `tags` is loaded: the entry of the name is replaced or added
\* and the list is written to tags.json; list(set(tag_domains)) keeps one copy
\* of every domain, in an order Python does not fix
WriteTags(tags, name, type, status, domains) ==
    LET existing == TagIndices(tags, name)
    IN  IF TooMany(existing)
        THEN /\ last' = Ran("add_tag", <<name, type, status, domains>>, "RuntimeError")
             /\ UNCHANGED <<tagsFile, lastTag>>
        ELSE \E deduped \in Perms(Range(domains)) :
             /\ tagsFile' = StageOf(UpsertTag(tags, TagEntry(name, type, status, deduped)))
             /\ lastTag' = {r \in lastTag : r.name # name} \cup
                               {[name |-> name, type |-> type, status |-> status,
                                 domains |-> Range(domains)]}
             /\ last' = Did("add_tag", <<name, type, status, domains>>,
                            IF existing = {} THEN "new"
                            ELSE IF \E i \in existing :
                                       <<tags[i].type, tags[i].status, Range(tags[i].domains)>> #
                                           <<type, status, Range(domains)>>
                            THEN "replaced" ELSE "same")

\* add_tag(tag_name, tag_type, tag_status, tag_domains), run without another
\* invocation beside it
AddTag(name, type, status, domains) ==
    /\ pc = "idle"
    /\ IF ~Parses(tagsFile)
       THEN /\ last' = Ran("add_tag", <<name, type, status, domains>>, "InvalidStage")
            /\ UNCHANGED <<tagsFile, lastTag>>
       ELSE WriteTags(Load(tagsFile), name, type, status, domains)
    /\ UNCHANGED <<pilsFile, lastPil>>
    /\ UNCHANGED envVars
    /\ UNCHANGED procs
    /\ NoPush

----------------------------------------------------------------------------
(* add_pil *)

\* Python truth value of the optional end: None and 0 are false
Truthy(end) == end # None /\ end[1] # 0

\* if end: assert start > 0 and end > start
IntervalAccepted(s, e) == Truthy(e) => (s > 0 /\ e[1] > s)

PayloadEntry(path, s, e) == [path |-> path, start |-> s, end |-> e]
PilEntry(tag, domain, payloads) == [tag |-> tag, domain |-> domain, payloads |-> payloads]

\* (mutant) an entry is replaced only when its path is the same too
UpsertPayloadByPath(payloads, path, s, e) ==
    Append(SelectSeq(payloads, LAMBDA pld : pld.start # s \/ pld.end # e \/ pld.path # path),
           PayloadEntry(path, s, e))

\* payloads = [pld for pld in payloads if pld['start'] != start or pld['end'] != end]
\* payloads.append(dict(path=str(payload), start=start, end=end))
UpsertPayload(payloads, path, s, e) ==
    Append(SelectSeq(payloads, LAMBDA pld : pld.start # s \/ pld.end # e),
           PayloadEntry(path, s, e))

\* (mutant) pils.pop(0): the first element is dropped, whatever i is
PopHead(s, i) == Tail(s)

\* s without its i-th element: pils.pop(i)
Pop(s, i) == [k \in 1..(Len(s) - 1) |-> IF k < i THEN s[k] ELSE s[k + 1]]

PilKey(tag, domain, s, e) == <<tag, domain, s, e>>

\* [indx for indx, pil in enumerate(pils) if pil['tag'] == tag and pil['domain'] == domain]
PilIndices(pils, tag, domain) ==
    {i \in 1..Len(pils) : pils[i].tag = tag /\ pils[i].domain = domain}

\* add_pil once `pils` is loaded: the PIL of (tag, domain) is taken out, gets
\* the payload entry and is appended, and the list is written to pils.json
WritePils(pils, tag, domain, payload, s, e) ==
    LET existing == PilIndices(pils, tag, domain)
    IN  IF TooMany(existing)
        THEN /\ last' = Ran("add_pil", <<tag, domain, payload, s, e>>, "RuntimeError")
             /\ UNCHANGED <<pilsFile, lastPil>>
        ELSE LET first    == CHOOSE i \in existing : \A j \in existing : i <= j
                 payloads == IF existing # {} THEN pils[first].payloads ELSE <<>>
                 rest     == IF existing # {} THEN Pop(pils, first) ELSE pils
                 updated  == UpsertPayload(payloads, payload, s, e)
             IN  /\ pilsFile' = StageOf(Append(rest, PilEntry(tag, domain, updated)))
                 /\ lastPil' = {r \in lastPil : r.key # PilKey(tag, domain, s, e)} \cup
                                {[key |-> PilKey(tag, domain, s, e), path |-> payload]}
                 /\ last' = Did("add_pil", <<tag, domain, payload, s, e>>,
                                IF \A pld \in Range(payloads) : pld.start # s \/ pld.end # e
                                THEN "new"
                                ELSE IF \E pld \in Range(payloads) :
                                           pld.start = s /\ pld.end = e /\ pld.path # payload
                                THEN "replaced" ELSE "same")

\* add_pil(tag, domain, payload, start, end), run without another invocation
\* beside it
AddPil(tag, domain, payload, s, e) ==
    /\ pc = "idle"
    /\ IF ~IntervalAccepted(s, e)
       THEN /\ last' = Ran("add_pil", <<tag, domain, payload, s, e>>, "AssertionError")
            /\ UNCHANGED <<pilsFile, lastPil>>
       ELSE IF ~Parses(pilsFile)
       THEN /\ last' = Ran("add_pil", <<tag, domain, payload, s, e>>, "InvalidStage")
            /\ UNCHANGED <<pilsFile, lastPil>>
       ELSE WritePils(Load(pilsFile), tag, domain, payload, s, e)
    /\ UNCHANGED <<tagsFile, lastTag>>
    /\ UNCHANGED envVars
    /\ UNCHANGED procs
    /\ NoPush

\* xpload add pil <tag> <domain> <payload> -s <start> -e <end>: the arguments are
\* parsed first (an argparse error ends the command before add_pil runs)
AddPilCmd(tag, domain, payload, s, e) ==
    IF NonNegativeInt(s) /\ (e = None \/ NonNegativeInt(e[1])) /\ FilePathType(payload)
    THEN AddPil(tag, domain, payload, s, e)
    ELSE /\ pc = "idle"
         /\ last' = Ran("add_pil", <<tag, domain, payload, s, e>>, "ArgumentTypeError")
         /\ UNCHANGED stageVars
         /\ UNCHANGED envVars
         /\ UNCHANGED procs
         /\ NoPush


----------------------------------------------------------------------------
(* payload_copy *)

S_IXUSR == 64       \* stat.S_IXUSR, 0o100
S_IWUSR == 128      \* stat.S_IWUSR, 0o200
S_IRUSR == 256      \* stat.S_IRUSR, 0o400

RECURSIVE BitAnd(_, _)
BitAnd(a, b) ==
    IF a = 0 \/ b = 0 THEN 0
    ELSE (IF a % 2 = 1 /\ b % 2 = 1 THEN 1 ELSE 0) + 2 * BitAnd(a \div 2, b \div 2)

RECURSIVE BitOr(_, _)
BitOr(a, b) ==
    IF a = 0 THEN b
    ELSE IF b = 0 THEN a
    ELSE (IF a % 2 = 1 \/ b % 2 = 1 THEN 1 ELSE 0) + 2 * BitOr(a \div 2, b \div 2)

Prefix(name, exists, mode) == [name |-> name, exists |-> exists, mode |-> mode]

\* prefix.exists() and os.stat(prefix).st_mode & (stat.S_IXUSR | stat.S_IWUSR)
GoodPrefix(prefix) ==
    prefix.exists /\ BitAnd(prefix.mode, BitOr(S_IXUSR, S_IWUSR)) # 0

\* good_prefixes = [prefix for prefix in prefixes if ...]
GoodPrefixes(prefs) == SelectSeq(prefs, GoodPrefix)

\* hashlib.md5(content).hexdigest(): distinct contents have distinct digests
Md5(content) == "md5(" \o content \o ")"

\* (mutant) the name keeps the directory of the payload file
PayloadNameWithDir(content, path) == Md5(content) \o "_" \o path.dir \o "_" \o path.base

\* payload_name = f"{md5sum}_{payload_file.name}"
PayloadName(content, path) == Md5(content) \o "_" \o path.base

\* destination = prefix/domain/payload_name
Destination(prefix, domain, name) == [prefix |-> prefix.name, domain |-> domain, name |-> name]

\* the user may create entries below a prefix: destination.parent.mkdir and
\* shutil.copyfile need search permission on the prefix, and write permission
\* on it unless prefix/domain is already there
CanWrite(prefix, domain, tr) ==
    /\ BitAnd(prefix.mode, S_IXUSR) # 0
    /\ \/ BitAnd(prefix.mode, S_IWUSR) # 0
       \/ \E f \in tr : f.dest.prefix = prefix.name /\ f.dest.domain = domain

\* the tree after destination is (over)written with content
WriteFile(tr, dest, content) ==
    {f \in tr : f.dest # dest} \cup {[dest |-> dest, content |-> content]}

NoDest == [prefix |-> "", domain |-> "", name |-> ""]

\* (mutant) the dry run creates the destination, empty
DryRunTouches(dest, tr) ==
    [res |-> "ok", dest |-> dest, wrote |-> {dest}, tree |-> WriteFile(tr, dest, "")]

\* if dry_run: return destination
DryRunReturns(dest, tr) == [res |-> "ok", dest |-> dest, wrote |-> {}, tree |-> tr]

\* (mutant) the copy is not read back
CopyNeverVerified(content, written) == TRUE

\* md5sum == md5sum_dst: the destination, read back, hashes as the source did
CopyVerified(content, written) == Md5(content) = Md5(written)

\* payload_copy(payload_file, prefixes, domain, dry_run): how it ends (res), what
\* it returns (dest), the files it wrote (wrote) and the prefix tree it leaves.
\* `written` is what shutil.copyfile left in the destination file.
PayloadCopy(path, prefs, domain, dry_run, fs, tr, written) ==
    IF fs[path] = NoFile
    THEN [res |-> "FileExistsError", dest |-> NoDest, wrote |-> {}, tree |-> tr]
    ELSE IF GoodPrefixes(prefs) = <<>>
    THEN [res |-> "NoWritablePrefix", dest |-> NoDest, wrote |-> {}, tree |-> tr]
    ELSE LET prefix == GoodPrefixes(prefs)[1]
             dest   == Destination(prefix, domain, PayloadName(fs[path], path))
         IN  IF dry_run
             THEN DryRunReturns(dest, tr)
             ELSE IF ~CanWrite(prefix, domain, tr)
             THEN [res |-> "PermissionError", dest |-> NoDest, wrote |-> {}, tree |-> tr]
             ELSE IF ~CopyVerified(fs[path], written)
             THEN [res |-> "CopyIntegrityError", dest |-> NoDest, wrote |-> {dest},
                   tree |-> WriteFile(tr, dest, written)]
             ELSE [res |-> "ok", dest |-> dest, wrote |-> {dest},
                   tree |-> WriteFile(tr, dest, written)]

\* what shutil.copyfile leaves in the destination when the disk fails
Damaged == "damaged"

\* a direct call of payload_copy
CopyCall(path, domain, dry_run, damaged) ==
    /\ pc = "idle"
    /\ LET written == IF damaged THEN Damaged ELSE files[path]
           copy == PayloadCopy(path, prefixes, domain, dry_run, files, tree, written)
       IN  /\ tree' = copy.tree
           /\ last' = Ran("payload_copy", <<path, domain, dry_run, copy.dest>>, copy.res)
    /\ UNCHANGED <<files, prefixes>>
    /\ UNCHANGED stageVars
    /\ UNCHANGED procs
    /\ NoPush

----------------------------------------------------------------------------
(* push, push_tags, push_pils *)

Call(fn, args, dry, res) == [fn |-> fn, args |-> args, dry |-> dry, res |-> res]

\* create_and_link_tag(name, type, status, domains) returns (ok) or raises
CreateAndLinkTag(tag, ok) ==
    Call("create_and_link_tag", <<tag.name, tag.type, tag.status, tag.domains>>,
         FALSE, IF ok THEN "ok" ELSE "RemoteError")

\* create_and_link_pil(tag, domain, name, start, end, dry_run) returns (ok) or raises
CreateAndLinkPil(item, name, dry_run, ok) ==
    Call("create_and_link_pil", <<item.tag, item.domain, name, item.start, item.end>>,
         dry_run, IF ok THEN "ok" ELSE "RemoteError")

RECURSIVE Items(_)
\* for pil in pils: for payload in pil['payloads']: the items in iteration order
Items(pils) ==
    IF pils = <<>> THEN <<>>
    ELSE [i \in 1..Len(pils[1].payloads) |->
             [tag |-> pils[1].tag, domain |-> pils[1].domain,
              path |-> pils[1].payloads[i].path,
              start |-> pils[1].payloads[i].start,
              end |-> pils[1].payloads[i].end]] \o Items(Tail(pils))

NoTags == {}
NoPils == {}

\* (mutant) the loop is left before its last turn
LoopDoneEarly(p, xs) == p >= Len(xs)

\* "for x in xs" has run through: p is the index of the next element
LoopDone(p, xs) == p > Len(xs)

\* os.EX_OSFILE
EX_OSFILE == 72

\* act_on: an exception of add or push is printed and the process exits with
\* os.EX_OSFILE; otherwise the exit status is 0
ExitStatus(res) == IF res = "ok" THEN 0 ELSE EX_OSFILE

\* (mutant) push gives up when either stage file is missing
NothingStagedEither(tags, pils) == ~tags.exists \/ ~pils.exists

\* if not tags_file.exists() and not pils_file.exists()
NothingStaged(tags, pils) == ~tags.exists /\ ~pils.exists

\* the push ends (returns or raises): where, and how
PushEnds(where, res) ==
    /\ pc' = "idle"
    /\ ptags' = <<>>
    /\ ppils' = <<>>
    /\ pos' = 0
    /\ last' = Ran("push", <<where>>, res)

\* (mutant) push_pils without its dry run
EnterPushPilsNoDryRun ==
    /\ pc' = "real"
    /\ ptags' = <<>>
    /\ ppils' = Items(pilsFile.data)
    /\ pos' = 1
    /\ last' = Ran("push", <<"push_pils">>, "running")

\* push_pils is entered: json.load(pils_file.open()) raises, or the dry run begins
EnterPushPils ==
    IF ~Parses(pilsFile)
    THEN PushEnds("push_pils", "InvalidStage")
    ELSE /\ pc' = "dry"
         /\ ptags' = <<>>
         /\ ppils' = Items(pilsFile.data)
         /\ pos' = 1
         /\ last' = Ran("push", <<"push_pils">>, "running")

\* (mutant) push() leaves the tags to a later push
PushTagsSkipped(tags) == FALSE

\* if tags_file.exists(): push_tags()
PushTagsCalled(tags) == tags.exists

\* push(): nothing staged raises; otherwise push_tags is entered (json.load
\* raises, or the loop begins) or push_pils is
Push ==
    /\ pc = "idle"
    /\ start' = [tags |-> tagsFile, pils |-> pilsFile,
                  missing |-> {item.path : item \in {i \in Range(Items(Load(pilsFile))) :
                                                        files[i.path] = NoFile}}]
    /\ calls' = <<>>
    /\ writes' = {}
    /\ IF NothingStaged(tagsFile, pilsFile)
       THEN PushEnds("push", "NothingStaged")
       ELSE IF PushTagsCalled(tagsFile) /\ ~Parses(tagsFile)
       THEN PushEnds("push_tags", "InvalidStage")
       ELSE IF PushTagsCalled(tagsFile)
       THEN /\ pc' = "push_tags"
            /\ ptags' = tagsFile.data
            /\ ppils' = <<>>
            /\ pos' = 1
            /\ last' = Ran("push", <<"push_tags">>, "running")
       ELSE EnterPushPils
    /\ UNCHANGED stageVars
    /\ UNCHANGED envVars
    /\ UNCHANGED procs

\* (mutant) push() goes on to push_pils when push_tags raised
TagPushRaisesThenPils ==
    IF pilsFile.exists THEN EnterPushPils ELSE PushEnds("push_tags", "RemoteError")

\* create_and_link_tag raised: the exception leaves push_tags and push
TagPushRaises == PushEnds("push_tags", "RemoteError")

\* (mutant) the tags are taken from the end of the list
NextTagReversed(p, tags) == tags[Len(tags) + 1 - p]

\* for tag in tags: the tag of turn p
NextTag(p, tags) == tags[p]

\* push_tags, one turn of "for tag in tags": create_and_link_tag returns or raises
PushTag(ok) ==
    /\ pc = "push_tags"
    /\ ~LoopDone(pos, ptags)
    /\ calls' = Append(calls, CreateAndLinkTag(NextTag(pos, ptags), ok))
    /\ IF ok
       THEN /\ pos' = pos + 1
            /\ UNCHANGED <<pc, ptags, ppils, last>>
       ELSE TagPushRaises
    /\ UNCHANGED <<writes, start>>
    /\ UNCHANGED stageVars
    /\ UNCHANGED envVars
    /\ UNCHANGED procs

\* (mutant) the pushed stage is written back empty
Emptied(file) == StageOf(<<>>)

\* tags_file.unlink(), pils_file.unlink()
Unlinked(file) == Absent

\* push_tags after the loop: tags_file.unlink(); back in push(), push_pils runs
\* if pils.json exists
PushTagsDone ==
    /\ pc = "push_tags"
    /\ LoopDone(pos, ptags)
    /\ tagsFile' = Unlinked(tagsFile)
    /\ lastTag' = NoTags
    /\ IF pilsFile.exists
       THEN EnterPushPils
       ELSE PushEnds("push", "ok")
    /\ UNCHANGED <<pilsFile, lastPil>>
    /\ UNCHANGED <<calls, writes, start>>
    /\ UNCHANGED envVars
    /\ UNCHANGED procs

\* (mutant) the first pass is not a dry run
DryRunNever(pass) == FALSE

\* push_pil(True) is the first pass, push_pil(False) the second
DryRun(pass) == pass = "dry"

\* push_pil(dry_run), one turn of the inner loop: payload_copy, then
\* create_and_link_pil, which returns or raises
PushPil(damaged, ok) ==
    /\ pc \in {"dry", "real"}
    /\ ~LoopDone(pos, ppils)
    /\ LET item    == ppils[pos]
           dry_run == DryRun(pc)
           written == IF damaged THEN Damaged ELSE files[item.path]
           copy    == PayloadCopy(item.path, prefixes, item.domain, dry_run, files, tree, written)
           copied  == Call("payload_copy", <<item.path, item.domain>>, dry_run, copy.res)
           linked  == CreateAndLinkPil(item, copy.dest.name, dry_run, ok)
       IN  /\ tree' = copy.tree
           /\ writes' = writes \cup copy.wrote
           /\ IF copy.res # "ok"
              THEN /\ calls' = Append(calls, copied)
                   /\ PushEnds("push_pils", copy.res)
              ELSE /\ calls' = Append(Append(calls, copied), linked)
                   /\ IF ok
                      THEN /\ pos' = pos + 1
                           /\ UNCHANGED <<pc, ptags, ppils, last>>
                      ELSE PushEnds("push_pils", "RemoteError")
    /\ UNCHANGED <<files, prefixes, start>>
    /\ UNCHANGED stageVars
    /\ UNCHANGED procs

\* push_pils between and after the two passes: the real pass follows a dry pass
\* that raised nothing; after the real pass pils_file.unlink()
PushPilsPassDone ==
    /\ pc \in {"dry", "real"}
    /\ LoopDone(pos, ppils)
    /\ IF pc = "dry"
       THEN /\ pc' = "real"
            /\ pos' = 1
            /\ UNCHANGED <<ptags, ppils, last, pilsFile, lastPil>>
       ELSE /\ pilsFile' = Unlinked(pilsFile)
            /\ lastPil' = NoPils
            /\ PushEnds("push", "ok")
    /\ UNCHANGED <<tagsFile, lastTag>>
    /\ UNCHANGED <<calls, writes, start>>
    /\ UNCHANGED envVars
    /\ UNCHANGED procs

\* a payload file is removed after it was staged
RemoveFile(path) ==
    /\ files[path] # NoFile
    /\ files' = [files EXCEPT ![path] = NoFile]
    /\ UNCHANGED <<prefixes, tree, last>>
    /\ UNCHANGED stageVars
    /\ UNCHANGED pushVars
    /\ UNCHANGED procs

\* between two commands an edit repeats the i-th record of a stage file at its
\* end
Duplicate(kind, i) ==
    /\ pc = "idle"
    /\ IF kind = "tags"
       THEN /\ Parses(tagsFile) /\ i \in 1..Len(Load(tagsFile))
            /\ Cardinality(TagIndices(tagsFile.data, tagsFile.data[i].name)) < MaxCopies
            /\ tagsFile' = StageOf(Append(tagsFile.data, tagsFile.data[i]))
            /\ UNCHANGED pilsFile
       ELSE /\ Parses(pilsFile) /\ i \in 1..Len(Load(pilsFile))
            /\ Cardinality(PilIndices(pilsFile.data, pilsFile.data[i].tag,
                                      pilsFile.data[i].domain)) < MaxCopies
            /\ pilsFile' = StageOf(Append(pilsFile.data, pilsFile.data[i]))
            /\ UNCHANGED tagsFile
    /\ last' = Ran("edit", <<kind, i>>, "ok")
    /\ UNCHANGED <<lastTag, lastPil>>
    /\ UNCHANGED envVars
    /\ UNCHANGED procs
    /\ NoPush

\* between two commands an edit leaves a stage file that no longer parses
Corrupt(kind) ==
    /\ pc = "idle"
    /\ IF kind = "tags"
       THEN tagsFile.exists /\ tagsFile' = Broken(tagsFile) /\ UNCHANGED pilsFile
       ELSE pilsFile.exists /\ pilsFile' = Broken(pilsFile) /\ UNCHANGED tagsFile
    /\ last' = Ran("edit", <<kind>>, "ok")
    /\ UNCHANGED <<lastTag, lastPil>>
    /\ UNCHANGED envVars
    /\ UNCHANGED procs
    /\ NoPush


----------------------------------------------------------------------------
(* Specifications *)

RWX == BitOr(S_IRUSR, BitOr(S_IWUSR, S_IXUSR))

InitWith(fs, prefs) ==
    /\ tagsFile = Absent
    /\ pilsFile = Absent
    /\ files = fs
    /\ prefixes = prefs
    /\ tree = {}
    /\ pc = "idle"
    /\ ptags = <<>>
    /\ ppils = <<>>
    /\ pos = 0
    /\ calls = <<>>
    /\ writes = {}
    /\ start = NotStarted
    /\ last = Ran("none", <<>>, "ok")
    /\ lastTag = NoTags
    /\ lastPil = NoPils
    /\ procs = [p \in Invocations |-> NotInvoked]

AllFiles == [p \in Paths |-> "x"]

\* staging tags
InitTags == InitWith(AllFiles, <<Prefix("p1", TRUE, RWX)>>)
NextTags ==
    \E name \in TagNames, type \in TagTypes, status \in TagStatus,
       domains \in SeqsUpTo(Domains, MaxDomains) :
        AddTag(name, type, status, domains)
SpecTags == InitTags /\ [][NextTags]_vars

\* staging payload intervals
PilKeys == {<<"T1", "D1">>, <<"T1", "D2">>, <<"T2", "D1">>}
PilPaths == {p \in Paths : p.base = "f"}
PilIntervals == {<<10, None>>, <<10, Some(20)>>, <<0, Some(20)>>}
InitPils == InitWith(AllFiles, <<Prefix("p1", TRUE, RWX)>>)
NextPils ==
    \E key \in PilKeys, path \in PilPaths, iv \in PilIntervals :
        AddPilCmd(key[1], key[2], path, iv[1], iv[2])
SpecPils == InitPils /\ [][NextPils]_vars

----------------------------------------------------------------------------
(* Claims about the stage *)

TagsNamed(n) == TagIndices(Load(tagsFile), n)
LatestTag(n) == {r \in lastTag : r.name = n}
LatestPil(key) == {r \in lastPil : r.key = key}

\* C1: starting from an absent tags stage, after any sequence of add_tag calls
\* the stage holds at most one StagedTag per name, and the entry of a name has
\* exactly the type, status and (deduplicated) domains of the latest add_tag of
\* that name.
C1_OneTagPerNameLatestFields ==
    \A n \in TagNames :
        /\ Cardinality(TagsNamed(n)) <= 1
        /\ (TagsNamed(n) = {}) <=> (LatestTag(n) = {})
        /\ \A i \in TagsNamed(n), latest \in LatestTag(n) :
              LET tag == tagsFile.data[i]
              IN  /\ tag.type = latest.type
                  /\ tag.status = latest.status
                  /\ Range(tag.domains) = latest.domains
                  /\ Len(tag.domains) = Cardinality(latest.domains)

\* a name was staged again with other fields, beside another staged tag
C1_Witness ==
    /\ Len(Load(tagsFile)) = 2
    /\ last.op = "add_tag" /\ last.note = "replaced"

PilsKeyed(tag, domain) == PilIndices(Load(pilsFile), tag, domain)

\* the payload entries staged for (tag, domain) with the interval (s, e)
EntriesOf(tag, domain, s, e) ==
    {pld \in UNION {Range(Load(pilsFile)[i].payloads) : i \in PilsKeyed(tag, domain)} :
        pld.start = s /\ pld.end = e}

\* C2: starting from an absent pils stage, after any sequence of accepted
\* add_pil calls every StagedPIL holds at most one payload entry per
\* (start, end); the entry of a (start, end) has the path of the latest add_pil
\* of that (tag, domain, start, end), whatever path it had before, and entries
\* with another (start, end) keep theirs.
C2_OneEntryPerInterval ==
    /\ \A i \in 1..Len(Load(pilsFile)) :
          LET plds == pilsFile.data[i].payloads
          IN  \A j, k \in 1..Len(plds) :
                  (plds[j].start = plds[k].start /\ plds[j].end = plds[k].end) => j = k
    /\ \A key \in TagNames \X Domains \X Times \X Ends :
          EntriesOf(key[1], key[2], key[3], key[4]) =
              {PayloadEntry(r.path, key[3], key[4]) : r \in LatestPil(key)}

\* an interval was staged again with another path, in a PIL holding a second entry
C2_Witness ==
    /\ last.op = "add_pil" /\ last.note = "replaced"
    /\ \E i \in PilsKeyed(last.args[1], last.args[2]) : Len(pilsFile.data[i].payloads) = 2

\* C3: the pils stage holds at most one StagedPIL per (tag, domain), and an
\* add_pil for one (tag, domain) leaves the StagedPIL of every other
\* (tag, domain), its payload list included, as it was.
C3_OnePilPerKey ==
    /\ [](\A tag \in TagNames, domain \in Domains : Cardinality(PilsKeyed(tag, domain)) <= 1)
    /\ [][last'.op = "add_pil" =>
             \A pil \in Range(Load(pilsFile)) :
                 \/ pil.tag = last'.args[1] /\ pil.domain = last'.args[2]
                 \/ pil \in Range(Load(pilsFile'))]_vars

\* an add_pil updated the StagedPIL of one (tag, domain) beside a second StagedPIL
C3_Witness ==
    /\ Len(Load(pilsFile)) = 2
    /\ last.op = "add_pil" /\ last.note = "new"
    /\ Len(pilsFile.data[2].payloads) = 2
    /\ Len(pilsFile.data[1].payloads) = 2

\* staging and pushing
PushFiles == [p \in Paths |-> IF p.dir = "a" THEN "x" ELSE "y"]
PushPrefixes == {<<Prefix("p1", TRUE, RWX)>>,
                 <<Prefix("p1", TRUE, BitOr(S_IRUSR, S_IXUSR)), Prefix("p2", TRUE, RWX)>>,
                 <<Prefix("p1", TRUE, S_IRUSR)>>}
PushTagNames == {<<"T1", "T2", "T3">>[i] : i \in 1..MaxTags}
InitPush == \E prefs \in PushPrefixes : InitWith(PushFiles, prefs)
NextPush ==
    \/ \E name \in PushTagNames : AddTag(name, "online", "unlocked", <<"D1">>)
    \/ \E tag \in TagNames, path \in PilPaths : AddPilCmd(tag, "D1", path, 0, None)
    \/ Push
    \/ \E ok \in BOOLEAN : PushTag(ok)
    \/ PushTagsDone
    \/ \E damaged \in BOOLEAN, ok \in BOOLEAN : PushPil(damaged, ok)
    \/ PushPilsPassDone
    \/ \E path \in PilPaths : RemoveFile(path)
SpecPush == InitPush /\ [][NextPush]_vars

\* calling payload_copy with every short list of candidate prefixes: a prefix is
\* missing, or exists with some of the owner's permission bits
PrefixNames == <<"p1", "p2", "p3", "p4">>
PrefixModes == {S_IRUSR, BitOr(S_IRUSR, S_IXUSR), BitOr(S_IRUSR, S_IWUSR), RWX}
PrefixStates == {[exists |-> FALSE, mode |-> 0]} \cup
                {[exists |-> TRUE, mode |-> m] : m \in PrefixModes}
PrefixLists ==
    {[i \in 1..Len(sts) |-> Prefix(PrefixNames[i], sts[i].exists, sts[i].mode)] :
        sts \in SeqsUpTo(PrefixStates, MaxPrefixes)}
InitCopy == \E prefs \in PrefixLists : InitWith(PushFiles, prefs)
NextCopy ==
    \/ \E path \in PilPaths, dry_run \in BOOLEAN, damaged \in BOOLEAN :
          CopyCall(path, "D1", dry_run, damaged)
    \/ \E path \in PilPaths : RemoveFile(path)
SpecCopy == InitCopy /\ [][NextCopy]_vars

\* staging intervals of one (tag, domain): every start and end of the command line,
\* a negative one included
IntervalStarts == {-1, 0, 10}
IntervalEnds == {None} \cup {Some(v) : v \in {-1} \cup Times}
InitInterval == InitWith(AllFiles, <<Prefix("p1", TRUE, RWX)>>)
NextInterval ==
    \E path \in {p \in Paths : p.base = "g"}, s \in IntervalStarts, e \in IntervalEnds :
        AddPilCmd("T1", "D1", path, s, e)
SpecInterval == InitInterval /\ [][NextInterval]_vars

----------------------------------------------------------------------------
(* Claims about push *)

\* the calls of fn among cs that returned, in call order; dry: those of the dry run
Returned(cs, fn, dry) ==
    SelectSeq(cs, LAMBDA c : c.fn = fn /\ c.dry = dry /\ c.res = "ok")

\* the calls of fn, in call order, whatever their end
Made(fn) == SelectSeq(calls, LAMBDA c : c.fn = fn)

\* the last command was a push that raised in `where`
PushRaisedIn(where) ==
    /\ last.op = "push"
    /\ last.args = <<where>>
    /\ last.res \notin {"ok", "running"}

\* among the calls cs, create_and_link_tag returned for every tag of `tags`, in order
AllTagsSubmitted(cs, tags) ==
    /\ Len(Returned(cs, "create_and_link_tag", FALSE)) = Len(tags)
    /\ \A i \in 1..Len(tags) :
          Returned(cs, "create_and_link_tag", FALSE)[i].args =
              <<tags[i].name, tags[i].type, tags[i].status, tags[i].domains>>

\* among the calls cs, the real pass copied and linked every payload entry of
\* `pils`, in order
AllPilsSubmitted(cs, pils) ==
    LET items  == Items(pils)
        copies == Returned(cs, "payload_copy", FALSE)
        links  == Returned(cs, "create_and_link_pil", FALSE)
    IN  /\ Len(copies) = Len(items)
        /\ Len(links) = Len(items)
        /\ \A i \in 1..Len(items) :
              /\ copies[i].args = <<items[i].path, items[i].domain>>
              /\ links[i].args[1] = items[i].tag
              /\ links[i].args[2] = items[i].domain
              /\ links[i].args[4] = items[i].start
              /\ links[i].args[5] = items[i].end

\* C4: push deletes tags.json only after create_and_link_tag returned for every
\* staged tag, and pils.json only after the real pass copied and linked every
\* payload entry of every staged PIL; after a push that raised in push_tags
\* (push_pils), tags.json (pils.json) still exists.
C4_DeletedOnlyAfterFullPush ==
    /\ [](PushRaisedIn("push_tags") => tagsFile.exists)
    /\ [](PushRaisedIn("push_pils") => pilsFile.exists)
    /\ [][(tagsFile.exists /\ ~tagsFile'.exists) => AllTagsSubmitted(calls', tagsFile.data)]_vars
    /\ [][(pilsFile.exists /\ ~pilsFile'.exists) => AllPilsSubmitted(calls', pilsFile.data)]_vars

\* a push submitted two tags and two payload entries and deleted both stage files
C4_Witness ==
    /\ last.op = "push" /\ last.res = "ok"
    /\ Len(start.tags.data) = 2
    /\ Len(Items(start.pils.data)) = 2
    /\ ~tagsFile.exists /\ ~pilsFile.exists

\* C5 as stated: if a staged PIL entry's source file is missing when push
\* starts, the push writes no file, makes no remote call and leaves both stage
\* files untouched.
C5_MissingSourceNothingHappens ==
    (last.op = "push" /\ start.missing # {}) =>
        /\ writes = {}
        /\ Made("create_and_link_tag") = <<>>
        /\ Made("create_and_link_pil") = <<>>
        /\ tagsFile = start.tags
        /\ pilsFile = start.pils

\* C5, amended: if a staged PIL entry's source file is missing when push
\* starts, the push writes no file, makes no create_and_link_pil call other
\* than dry-run ones, never reaches the real pass and leaves pils.json
\* untouched; staged tags are submitted before, and tags.json is left
\* untouched or, once every tag is submitted, deleted.
C5_MissingSourceNoPilPushed ==
    (last.op = "push" /\ start.missing # {}) =>
        /\ writes = {}
        /\ pc # "real"
        /\ \A i \in 1..Len(calls) : calls[i].fn # "create_and_link_tag" => calls[i].dry
        /\ pilsFile = start.pils
        /\ tagsFile = start.tags \/ (tagsFile = Absent /\ AllTagsSubmitted(calls, start.tags.data))

\* a push with tags staged and the second payload file missing: the tags were
\* pushed, the dry run linked the first entry and raised at the second
C5_Witness ==
    /\ last.op = "push" /\ last.res = "FileExistsError"
    /\ start.missing # {}
    /\ start.tags.exists /\ ~tagsFile.exists
    /\ Made("create_and_link_pil") # <<>>

\* some step of push_pils ran in the push
PilPushAttempted == Made("payload_copy") # <<>> \/ Made("create_and_link_pil") # <<>>

\* the last push began with both stage files and has ended
PushOfBothEnded ==
    /\ last.op = "push" /\ last.res # "running"
    /\ start.tags.exists /\ start.pils.exists

\* C6 as stated: when both stages exist, a failure in the tag push does not
\* prevent the PIL push from being attempted in the same push, and a failure
\* in the PIL push does not roll back the tag push.
C6_TagAndPilPushIndependent ==
    PushOfBothEnded =>
        /\ PushRaisedIn("push_tags") => PilPushAttempted
        /\ PushRaisedIn("push_pils") =>
              ~tagsFile.exists /\ AllTagsSubmitted(calls, start.tags.data)

\* C6, amended: when both stages exist, a failure in the tag push ends the
\* push: the PIL push is not attempted in that push and both stage files are
\* left as they were; a failure in the PIL push does not roll back the tag
\* push (tags.json stays deleted, every tag stays submitted).
C6_TagFailureEndsPush ==
    PushOfBothEnded =>
        /\ PushRaisedIn("push_tags") =>
              ~PilPushAttempted /\ tagsFile = start.tags /\ pilsFile = start.pils
        /\ PushRaisedIn("push_pils") =>
              ~tagsFile.exists /\ AllTagsSubmitted(calls, start.tags.data)

\* a push of both stages raised at its second tag
C6_Witness ==
    /\ PushOfBothEnded
    /\ PushRaisedIn("push_tags")
    /\ Len(Made("create_and_link_tag")) = 2

\* C7: push with neither tags.json nor pils.json raises NothingStaged (nonzero
\* exit status) without a remote call or a write; with at least one of the two
\* it does not raise NothingStaged.
C7_NothingStaged ==
    last.op = "push" =>
        /\ (last.res = "NothingStaged") <=> (~start.tags.exists /\ ~start.pils.exists)
        /\ last.res = "NothingStaged" =>
              /\ ExitStatus(last.res) # 0
              /\ calls = <<>>
              /\ writes = {}
              /\ ~tagsFile.exists /\ ~pilsFile.exists

\* a push found nothing staged, after an earlier push had cleared the stage
C7_Witness ==
    /\ last.op = "push" /\ last.res = "NothingStaged"
    /\ tree # {}

----------------------------------------------------------------------------
(* Claims about payload_copy and the staged intervals *)

\* the candidates that exist with both the execute and the write permission
BothPermissions(prefs) ==
    SelectSeq(prefs, LAMBDA prefix : /\ prefix.exists
                                     /\ BitAnd(prefix.mode, S_IXUSR) # 0
                                     /\ BitAnd(prefix.mode, S_IWUSR) # 0)

\* C8: payload_copy (of an existing file) selects the first candidate prefix,
\* in list order, that exists with both the execute and the write permission; a
\* prefix with one of the two never qualifies; with no such prefix it fails with
\* NoWritablePrefix.
C8_FirstPrefixWithBothPermissions ==
    (last.op = "payload_copy" /\ last.res # "FileExistsError") =>
        IF BothPermissions(prefixes) = <<>>
        THEN last.res = "NoWritablePrefix"
        ELSE /\ last.res # "NoWritablePrefix"
             /\ last.res = "ok" => last.args[4].prefix = BothPermissions(prefixes)[1].name

\* every payload entry in the pils stage
StagedEntries == UNION {Range(Load(pilsFile)[i].payloads) : i \in 1..Len(Load(pilsFile))}

\* C9: every payload entry staged by add_pil has start >= 0 and an end that is
\* absent or greater than start; add_pil with start >= 0 and end > start is
\* accepted, and add_pil with an end <= start (end = 0 included) is rejected.
C9_StagedIntervalsValid ==
    /\ \A pld \in StagedEntries :
          pld.start >= 0 /\ (pld.end = None \/ pld.end[1] > pld.start)
    /\ last.op = "add_pil" =>
          LET s == last.args[4]
              e == last.args[5]
          IN  /\ (s >= 0 /\ e # None /\ e[1] > s) => last.res = "ok"
              /\ (e # None /\ e[1] <= s) => last.res # "ok"

\* C10: from an absent pils stage, add_pil with (start=0, end=10) and then
\* add_pil with (start=10, end=20) for the same (tag, domain) yield one
\* StagedPIL with the two payload entries.
C10_AdjacentIntervalsCoexist ==
    [][(last'.op = "add_pil" /\ last'.args[1] = "T1" /\ last'.args[2] = "D1") =>
          LET path   == last'.args[3]
              first  == {PayloadEntry(p, 0, Some(10)) : p \in Paths}
          IN  /\ (~pilsFile.exists /\ last'.args[4] = 0 /\ last'.args[5] = Some(10)) =>
                    pilsFile' = StageOf(<<PilEntry("T1", "D1", <<PayloadEntry(path, 0, Some(10))>>)>>)
              /\ \A one \in first :
                    (/\ pilsFile = StageOf(<<PilEntry("T1", "D1", <<one>>)>>)
                     /\ last'.args[4] = 10 /\ last'.args[5] = Some(20)) =>
                        pilsFile' = StageOf(<<PilEntry("T1", "D1",
                                                       <<one, PayloadEntry(path, 10, Some(20))>>)>>)
      ]_vars

----------------------------------------------------------------------------
(* Claims about failures and order inside push *)

\* the payload entry the current turn of push_pil works on
CurrentItem == ppils[pos]

\* the files of the tree tr that are not in the tree before
Written(before, tr) == tr \ before

TagCalls(tags, n) ==
    [i \in 1..n |-> Call("create_and_link_tag",
                         <<tags[i].name, tags[i].type, tags[i].status, tags[i].domains>>,
                         FALSE, "ok")]

\* no create_and_link_tag call of the push raised
TagCallsReturned == \A i \in 1..Len(calls) : calls[i].fn = "create_and_link_tag" => calls[i].res = "ok"

\* C15: a push over a tags stage of n tags, with create_and_link_tag always
\* returning, makes exactly one create_and_link_tag call per staged tag, in
\* stage order, with the name, type, status and domains staged for it, and
\* then deletes tags.json.
C15_OneCallPerTagInOrder ==
    (last.op = "push" /\ start.tags.exists /\ TagCallsReturned) =>
        IF pc = "push_tags"
        THEN /\ Made("create_and_link_tag") = TagCalls(start.tags.data, pos - 1)
             /\ tagsFile = start.tags
        ELSE /\ Made("create_and_link_tag") = TagCalls(start.tags.data, Len(start.tags.data))
             /\ ~tagsFile.exists

\* a push of two staged tags, and no pils, has ended
C15_Witness ==
    /\ last = Ran("push", <<"push">>, "ok")
    /\ ~start.pils.exists
    /\ Len(start.tags.data) = 2
    /\ Len(calls) = 2
    /\ start.tags.data[1].name = "T2"

\* the payload_copy and create_and_link_pil calls of the push so far
PilCalls == SelectSeq(calls, LAMBDA c : c.fn \in {"payload_copy", "create_and_link_pil"})

\* the dry run went through every payload entry staged when the push began:
\* per entry one payload_copy and one create_and_link_pil, both returned
DryRunCompleted ==
    LET items == Items(start.pils.data)
    IN  /\ Len(PilCalls) >= 2 * Len(items)
        /\ \A i \in 1..Len(items) :
              /\ PilCalls[2 * i - 1] =
                     Call("payload_copy", <<items[i].path, items[i].domain>>, TRUE, "ok")
              /\ PilCalls[2 * i].fn = "create_and_link_pil"
              /\ PilCalls[2 * i].dry /\ PilCalls[2 * i].res = "ok"
              /\ PilCalls[2 * i].args[1] = items[i].tag

\* C16: in push_pils nothing is done without dry_run (no file is copied into
\* a prefix, no create_and_link_pil call with dry_run = False is made) until
\* the dry run has gone through every payload entry of every staged PIL
\* without an error; after an error in the dry run the push copies no file
\* and makes no call without dry_run.
C16_DryRunBeforeAnyRealAction ==
    /\ []((writes # {} \/ \E i \in 1..Len(PilCalls) : ~PilCalls[i].dry) => DryRunCompleted)
    /\ []((\E i \in 1..Len(PilCalls) : PilCalls[i].dry /\ PilCalls[i].res # "ok") =>
              /\ writes = {}
              /\ \A i \in 1..Len(PilCalls) : PilCalls[i].dry
              /\ pc = "idle" /\ pilsFile = start.pils)
    /\ [][tree' # tree => (pc = "real" /\ DryRunCompleted)]_vars

\* after a dry run over two payload entries the second pass has copied the
\* first file
C16_Witness ==
    /\ pc = "real" /\ pos = 2
    /\ Len(ppils) = 2
    /\ Cardinality(writes) = 1
    /\ Len(PilCalls) = 6

\* in the calls of the push every create_and_link_tag call comes before
\* every payload_copy and create_and_link_pil call
TagCallsFirst ==
    \A i, j \in 1..Len(calls) :
        (calls[i].fn = "create_and_link_tag" /\ calls[j].fn # "create_and_link_tag") => i < j

\* C17: when both stage files exist, push has submitted every staged tag and
\* deleted tags.json before its first PIL action (a payload_copy, dry run or
\* not, or a create_and_link_pil call).
C17_TagPushBeforePilPush ==
    (last.op = "push" /\ start.tags.exists /\ start.pils.exists) =>
        /\ (PilCalls # <<>> \/ pc \in {"dry", "real"}) =>
              /\ ~tagsFile.exists
              /\ AllTagsSubmitted(calls, start.tags.data)
              /\ TagCallsReturned
        /\ TagCallsFirst

\* with two tags and a PIL staged, the dry run has made its first calls
C17_Witness ==
    /\ pc = "dry" /\ pos = 2
    /\ Len(start.tags.data) = 2
    /\ start.pils.exists
    /\ Len(PilCalls) = 2

\* the second pass of the last push made a call before the push raised
RealPassFailed ==
    /\ pc = "idle"
    /\ PushRaisedIn("push_pils")
    /\ \E i \in 1..Len(PilCalls) : ~PilCalls[i].dry

\* C19: push does not rewrite a stage file: all through a push each stage
\* file is as it was when the push began, or is deleted after everything in
\* it was pushed; so after a push whose real pass failed part-way pils.json
\* still holds every staged entry, those copied and linked already included,
\* and the next push goes through all of them again.
C19_PushNeverRewritesStage ==
    /\ [](last.op = "push" =>
              /\ \/ tagsFile = start.tags
                 \/ ~tagsFile.exists /\ AllTagsSubmitted(calls, start.tags.data)
              /\ \/ pilsFile = start.pils
                 \/ ~pilsFile.exists /\ AllPilsSubmitted(calls, start.pils.data))
    /\ [](RealPassFailed => pilsFile = start.pils /\ pilsFile.exists)
    /\ [][(RealPassFailed /\ last'.op = "push" /\ calls' = <<>>) =>
              /\ pc' = "dry" /\ pos' = 1
              /\ ppils' = Items(start.pils.data)
              /\ start'.pils = start.pils]_vars

\* the real pass copied and linked the first of two entries, copied the
\* second and failed to link it
C19_Witness ==
    /\ RealPassFailed
    /\ last.res = "RemoteError"
    /\ Len(Items(pilsFile.data)) = 2
    /\ Len(Returned(calls, "create_and_link_pil", FALSE)) = 1
    /\ Len(Returned(calls, "payload_copy", FALSE)) = 2

----------------------------------------------------------------------------
(* Claims about the destination of payload_copy *)

\* the step is a call of payload_copy (under SpecCopy the only other step
\* removes a file)
CopyStep == last'.op = "payload_copy" /\ files' = files

\* C12: payload_copy with dry_run = True writes nothing (prefix tree, payload
\* files and prefixes stay as they are) and returns the destination
\* prefix/domain/<md5>_<basename> that the call with dry_run = False returns
\* for the same file, prefixes and domain.
C12_DryRunSameDestinationNoWrite ==
    [][CopyStep =>
          LET path    == last'.args[1]
              domain  == last'.args[2]
              dry_run == last'.args[3]
              dest    == last'.args[4]
          IN  /\ dry_run => tree' = tree /\ prefixes' = prefixes
              /\ last'.res = "ok" =>
                    /\ dest.domain = domain
                    /\ dest.name = Md5(files[path]) \o "_" \o path.base
                    /\ \E i \in 1..Len(prefixes) : prefixes[i].name = dest.prefix
              /\ (/\ last.op = "payload_copy" /\ last.res = "ok" /\ last'.res = "ok"
                  /\ last.args[1] = path /\ last.args[2] = domain
                  /\ last.args[3] # dry_run) => dest = last.args[4]
              /\ (~dry_run /\ last'.res = "ok") =>
                    PayloadCopy(path, prefixes, domain, TRUE, files, tree, files[path]).dest = dest
    ]_vars

\* a dry run returned the destination that a call without dry_run had written
C12_Witness ==
    /\ last.op = "payload_copy" /\ last.res = "ok" /\ last.args[3]
    /\ \E f \in tree : f.dest = last.args[4] /\ f.content = files[last.args[1]]
    /\ Cardinality(tree) = 1

\* calling payload_copy on files with every assignment of two contents, into
\* the domains of one writable prefix
Contents == {"x", "y"}
InitNames == \E fs \in [Paths -> Contents] : InitWith(fs, <<Prefix("p1", TRUE, RWX)>>)
NextNames ==
    \E path \in Paths, domain \in Domains, dry_run \in BOOLEAN :
        CopyCall(path, domain, dry_run, FALSE)
SpecNames == InitNames /\ [][NextNames]_vars

\* C13: the destination name is a function of the content and the basename of
\* the payload file only: files with the same bytes and the same basename in
\* different directories get the same destination path for one domain and
\* prefix, files with the same bytes and different basenames get different
\* names, and copying the same content again leaves the prefix tree as the
\* first copy left it.
C13_NameFromContentAndBasename ==
    [][(/\ CopyStep /\ last'.res = "ok"
        /\ last.op = "payload_copy" /\ last.res = "ok") =>
          LET before == last.args[1]
              path   == last'.args[1]
              same   == files[before] = files[path]
          IN  /\ (same /\ before.base = path.base /\ last.args[2] = last'.args[2]) =>
                    last'.args[4] = last.args[4]
              /\ (same /\ before.base # path.base) =>
                    last'.args[4].name # last.args[4].name
              /\ (/\ same /\ before.base = path.base /\ last.args[2] = last'.args[2]
                  /\ ~last.args[3] /\ ~last'.args[3]) => tree' = tree
    ]_vars

\* the same bytes were copied from two directories and under two basenames:
\* the domain holds two files
C13_Witness ==
    /\ last.op = "payload_copy" /\ last.res = "ok" /\ ~last.args[3]
    /\ last.args[1] = [dir |-> "b", base |-> "f"]
    /\ \A p \in Paths : files[p] = "x"
    /\ Cardinality({f \in tree : f.dest.domain = last.args[2]}) = 2
    /\ Cardinality(tree) = 2

----------------------------------------------------------------------------
(* Claims about a stage file that does not parse *)

\* staging and pushing while edits break the stage files
StageKinds == {"tags", "pils"}
InitCorrupt == InitWith(PushFiles, <<Prefix("p1", TRUE, RWX)>>)
NextCorrupt ==
    \/ \E name \in PushTagNames : AddTag(name, "online", "unlocked", <<"D1">>)
    \/ \E path \in PilPaths : AddPilCmd("T1", "D1", path, 10, Some(20))
    \/ Push
    \/ \E ok \in BOOLEAN : PushTag(ok)
    \/ PushTagsDone
    \/ \E ok \in BOOLEAN : PushPil(FALSE, ok)
    \/ PushPilsPassDone
    \/ \E kind \in StageKinds : Corrupt(kind)
SpecCorrupt == InitCorrupt /\ [][NextCorrupt]_vars

\* the stage file is there and is not JSON
Unparsable(file) == file.exists /\ ~file.valid

\* the step has push() call push_pils
PushPilsEntered ==
    \/ pc = "idle" /\ last'.op = "push" /\ ~tagsFile.exists
    \/ pc = "push_tags" /\ tagsFile.exists /\ ~tagsFile'.exists

\* C14: when a stage file exists and does not parse as JSON, add_tag and
\* push_tags (tags.json), add_pil and push_pils (pils.json) raise the
\* invalid-stage error, make no remote call and leave the file as it is.
C14_CorruptStageRaisesUntouched ==
    [][/\ (last'.op = "add_tag" /\ Unparsable(tagsFile)) =>
             /\ last'.res = "InvalidStage"
             /\ tagsFile' = tagsFile /\ calls' = <<>>
       /\ (last'.op = "add_pil" /\ Unparsable(pilsFile)) =>
             /\ last'.res = "InvalidStage"
             /\ pilsFile' = pilsFile /\ calls' = <<>>
       /\ (pc = "idle" /\ last'.op = "push" /\ Unparsable(tagsFile)) =>
             /\ last' = Ran("push", <<"push_tags">>, "InvalidStage")
             /\ tagsFile' = tagsFile /\ pilsFile' = pilsFile
             /\ calls' = <<>> /\ tree' = tree
       /\ (PushPilsEntered /\ Unparsable(pilsFile)) =>
             /\ last' = Ran("push", <<"push_pils">>, "InvalidStage")
             /\ pilsFile' = pilsFile
             /\ calls' = calls \/ calls' = <<>>
             /\ Returned(calls', "create_and_link_pil", TRUE) = <<>>
             /\ Returned(calls', "payload_copy", TRUE) = <<>>
             /\ tree' = tree
    ]_vars

\* push found a tags.json that does not parse, with two tags and a pils stage
\* behind it
C14_Witness ==
    /\ last = Ran("push", <<"push_tags">>, "InvalidStage")
    /\ tagsFile = Broken(StageOf(start.tags.data))
    /\ Len(tagsFile.data) = 2
    /\ pilsFile.exists /\ pilsFile.valid

----------------------------------------------------------------------------
(* Claims about the order of the staged records *)

\* staging three tags and the intervals of three (tag, domain) in any order
OrderNames == {"T1", "T2", "T3"}
OrderIntervals == {<<10, None>>, <<10, Some(20)>>}
OrderPath == [dir |-> "a", base |-> "f"]
InitOrder == InitWith(AllFiles, <<Prefix("p1", TRUE, RWX)>>)
NextOrder ==
    \/ \E name \in OrderNames : AddTag(name, "online", "unlocked", <<"D1">>)
    \/ \E tag \in OrderNames, iv \in OrderIntervals :
          AddPilCmd(tag, "D1", OrderPath, iv[1], iv[2])
SpecOrder == InitOrder /\ [][NextOrder]_vars

\* the sequence s without its last element
Front(s) == SubSeq(s, 1, Len(s) - 1)

\* C18: add_tag and add_pil keep the records with another key in the order
\* they had: the stage after the call is those records, as they were and in
\* their order, followed by the record that was added or replaced; the
\* payload entries of the PIL are kept likewise, the added entry last.
C18_UpsertKeepsOrderOfOthers ==
    [][/\ (last'.op = "add_tag" /\ last'.res = "ok") =>
             LET before == Load(tagsFile)
                 after  == Load(tagsFile')
             IN  /\ after # <<>>
                 /\ after[Len(after)].name = last'.args[1]
                 /\ Front(after) = SelectSeq(before, LAMBDA t : t.name # last'.args[1])
                 /\ \A i, j \in 1..Len(before) :
                       (i < j /\ before[i].name # last'.args[1] /\ before[j].name # last'.args[1]) =>
                          \E k, l \in 1..Len(after) : k < l /\ after[k] = before[i] /\ after[l] = before[j]
       /\ (last'.op = "add_pil" /\ last'.res = "ok") =>
             LET before == Load(pilsFile)
                 after  == Load(pilsFile')
                 tag    == last'.args[1]
                 domain == last'.args[2]
                 old    == UNION {{before[i].payloads} : i \in PilIndices(before, tag, domain)}
             IN  /\ after # <<>>
                 /\ after[Len(after)].tag = tag /\ after[Len(after)].domain = domain
                 /\ Front(after) = SelectSeq(before, LAMBDA pil : pil.tag # tag \/ pil.domain # domain)
                 /\ after[Len(after)].payloads # <<>>
                 /\ \A plds \in old :
                       Front(after[Len(after)].payloads) =
                          SelectSeq(plds, LAMBDA pld : pld.start # last'.args[4] \/ pld.end # last'.args[5])
    ]_vars

\* the first of three staged PILs got an interval again and went last, beside
\* three staged tags
C18_Witness ==
    /\ last.op = "add_pil" /\ last.note = "same"
    /\ Len(Load(pilsFile)) = 3 /\ Len(Load(tagsFile)) = 3
    /\ pilsFile.data[3].tag = "T1" /\ Len(pilsFile.data[3].payloads) = 2
    /\ pilsFile.data[3].payloads[2].end = None
    /\ tagsFile.data[1].name = "T3"

----------------------------------------------------------------------------
(* add_tag and add_pil run side by side *)

Invoked(at, op, args, loaded) ==
    [at |-> at, op |-> op, args |-> args, loaded |-> loaded, missed |-> {}]

\* (mutant) the list is read again when it is written
Reloaded(p) == Load(IF procs[p].op = "add_tag" THEN tagsFile ELSE pilsFile)

\* the local list `tags` (`pils`) of the invocation: what json.load returned
Loaded(p) == procs[p].loaded

\* add_tag up to and including json.load(tags_file.open())
BeginAddTag(p, name, type, status, domains) ==
    /\ pc = "idle"
    /\ procs[p].at = "idle"
    /\ LET args == <<name, type, status, domains>>
       IN  IF ~Parses(tagsFile)
           THEN /\ procs' = [procs EXCEPT ![p] = Invoked("done", "add_tag", args, <<>>)]
                /\ last' = Ran("add_tag", args, "InvalidStage")
           ELSE /\ procs' = [procs EXCEPT ![p] = Invoked("loaded", "add_tag", args, Load(tagsFile))]
                /\ UNCHANGED last
    /\ UNCHANGED stageVars
    /\ UNCHANGED envVars
    /\ UNCHANGED pushVars

\* add_pil up to and including json.load(pils_file.open())
BeginAddPil(p, tag, domain, payload, s, e) ==
    /\ pc = "idle"
    /\ procs[p].at = "idle"
    /\ LET args == <<tag, domain, payload, s, e>>
       IN  IF ~IntervalAccepted(s, e)
           THEN /\ procs' = [procs EXCEPT ![p] = Invoked("done", "add_pil", args, <<>>)]
                /\ last' = Ran("add_pil", args, "AssertionError")
           ELSE IF ~Parses(pilsFile)
           THEN /\ procs' = [procs EXCEPT ![p] = Invoked("done", "add_pil", args, <<>>)]
                /\ last' = Ran("add_pil", args, "InvalidStage")
           ELSE /\ procs' = [procs EXCEPT ![p] = Invoked("loaded", "add_pil", args, Load(pilsFile))]
                /\ UNCHANGED last
    /\ UNCHANGED stageVars
    /\ UNCHANGED envVars
    /\ UNCHANGED pushVars

\* the rest of add_tag / add_pil, from the list the invocation loaded to
\* write_text; every invocation that loaded the same file and has not written
\* yet has now missed this write
EndAdd(p) ==
    /\ pc = "idle"
    /\ procs[p].at = "loaded"
    /\ LET args == procs[p].args
       IN  IF procs[p].op = "add_tag"
           THEN /\ WriteTags(Loaded(p), args[1], args[2], args[3], args[4])
                /\ UNCHANGED <<pilsFile, lastPil>>
           ELSE /\ WritePils(Loaded(p), args[1], args[2], args[3], args[4], args[5])
                /\ UNCHANGED <<tagsFile, lastTag>>
    /\ procs' = [q \in Invocations |->
                    IF q = p THEN [procs[p] EXCEPT !.at = "done"]
                    ELSE IF procs[q].at = "loaded" /\ procs[q].op = procs[p].op
                    THEN [procs[q] EXCEPT !.missed = @ \cup {p}]
                    ELSE procs[q]]
    /\ UNCHANGED envVars
    /\ NoPush

\* up to three invocations, each run once, in any interleaving
InitRace == InitWith(AllFiles, <<Prefix("p1", TRUE, RWX)>>)
NextRace ==
    \/ \E p \in Invocations, name \in TagNames :
          BeginAddTag(p, name, "online", "unlocked", <<"D1">>)
    \/ \E p \in Invocations, tag \in TagNames :
          BeginAddPil(p, tag, "D1", OrderPath, 10, None)
    \/ \E p \in Invocations : EndAdd(p)
SpecRace == InitRace /\ [][NextRace]_vars

\* C20: the stage is read, changed and written without a guard, and the last
\* writer wins: what an invocation writes is the list it loaded with its own
\* record put last, whatever was written since it loaded; when two add_tag (or
\* two add_pil) invocations for different keys have both loaded before either
\* writes, the record of the one that wrote first is gone from the file once
\* the other has written.
C20_LastWriterWins ==
    [][\A p \in Invocations :
          (procs[p].at = "loaded" /\ procs'[p].at = "done" /\ last'.res = "ok") =>
              LET mine == procs[p]
              IN  /\ mine.op = "add_tag" =>
                        LET after == Load(tagsFile')
                        IN  /\ after # <<>>
                            /\ Front(after) = SelectSeq(mine.loaded, LAMBDA t : t.name # mine.args[1])
                            /\ after[Len(after)] =
                                   TagEntry(mine.args[1], mine.args[2], mine.args[3], mine.args[4])
                            /\ \A q \in mine.missed :
                                   (/\ procs[q].args[1] # mine.args[1]
                                    /\ TagIndices(mine.loaded, procs[q].args[1]) = {}) =>
                                       TagIndices(after, procs[q].args[1]) = {}
                  /\ mine.op = "add_pil" =>
                        LET after == Load(pilsFile')
                        IN  /\ after # <<>>
                            /\ Front(after) = SelectSeq(mine.loaded,
                                                        LAMBDA pil : pil.tag # mine.args[1] \/
                                                                     pil.domain # mine.args[2])
                            /\ after[Len(after)].tag = mine.args[1]
                            /\ after[Len(after)].domain = mine.args[2]
                            /\ \A q \in mine.missed :
                                   (/\ procs[q].args[1] # mine.args[1]
                                    /\ PilIndices(mine.loaded, procs[q].args[1], procs[q].args[2]) = {}) =>
                                       PilIndices(after, procs[q].args[1], procs[q].args[2]) = {}
    ]_vars

\* two add_tag invocations for T1 and T2 both loaded the empty stage; the
\* second to write has written, and the tag of the first is lost
C20_Witness ==
    \E p, q \in Invocations :
        /\ procs[p].at = "done" /\ procs[q].at = "done"
        /\ procs[p].op = "add_tag" /\ procs[q].op = "add_tag"
        /\ procs[p].args[1] # procs[q].args[1]
        /\ procs[p].loaded = <<>> /\ procs[q].loaded = <<>>
        /\ q \in procs[p].missed
        /\ last = Did("add_tag", procs[p].args, "new")
        /\ Len(Load(tagsFile)) = 1
        /\ tagsFile.data[1].name = procs[p].args[1]

----------------------------------------------------------------------------
(* Claims about a stage that holds a key more than once *)

\* staging tags and intervals while edits repeat records of the stage files
InitDuplicates == InitWith(AllFiles, <<Prefix("p1", TRUE, RWX)>>)
NextDuplicates ==
    \/ \E name \in TagNames : AddTag(name, "online", "unlocked", <<"D1">>)
    \/ \E tag \in TagNames : AddPilCmd(tag, "D1", OrderPath, 10, None)
    \/ \E kind \in StageKinds, i \in 1..(2 * MaxCopies) : Duplicate(kind, i)
SpecDuplicates == InitDuplicates /\ [][NextDuplicates]_vars

\* C21: when the loaded stage holds two or more records with the key that is
\* added (the name for add_tag, (tag, domain) for add_pil), the add raises the
\* invalid-stage RuntimeError and leaves the stage file as it is, duplicates
\* included; an add of another key is accepted and keeps the duplicates too.
C21_DuplicateKeyRaisesUntouched ==
    [][/\ last'.op = "add_tag" =>
             LET before == Load(tagsFile)
                 name   == last'.args[1]
             IN  /\ Cardinality(TagIndices(before, name)) >= 2 =>
                       last'.res = "RuntimeError" /\ tagsFile' = tagsFile
                 /\ Cardinality(TagIndices(before, name)) < 2 =>
                       /\ last'.res = "ok"
                       /\ \A other \in TagNames \ {name} :
                             Cardinality(TagIndices(Load(tagsFile'), other)) =
                                Cardinality(TagIndices(before, other))
       /\ last'.op = "add_pil" =>
             LET before == Load(pilsFile)
                 tag    == last'.args[1]
                 domain == last'.args[2]
             IN  /\ Cardinality(PilIndices(before, tag, domain)) >= 2 =>
                       last'.res = "RuntimeError" /\ pilsFile' = pilsFile
                 /\ Cardinality(PilIndices(before, tag, domain)) < 2 =>
                       /\ last'.res = "ok"
                       /\ \A other \in TagNames \ {tag} :
                             Cardinality(PilIndices(Load(pilsFile'), other, domain)) =
                                Cardinality(PilIndices(before, other, domain))
    ]_vars

\* add_tag of a name staged twice was refused, beside another tag and a pils
\* stage that holds a key twice as well
C21_Witness ==
    /\ last.op = "add_tag" /\ last.res = "RuntimeError"
    /\ Cardinality(TagIndices(Load(tagsFile), last.args[1])) = 2
    /\ Len(Load(tagsFile)) = 3
    /\ \E i \in 1..Len(Load(pilsFile)) :
          Cardinality(PilIndices(pilsFile.data, pilsFile.data[i].tag, pilsFile.data[i].domain)) = 2

====
